---- MODULE Spec2Model ----
(***************************************************************************)
(* The invoice repository (a typed store over a sled tree) and the payment *)
(* poller of acceptevm: poll_payments reads every invoice, asks the chain  *)
(* for the recipient's balance, deletes a paid invoice and then runs the   *)
(* gateway's callback under the callback mutex.                            *)
(***************************************************************************)
EXTENDS Integers, Sequences, FiniteSets, TLC

\* ---------------------------------------------------------------- bounds
\* External writes (set, delete, raw insert) by other users of the tree.
MaxExtOps == 3
\* The balance oracle answers 0..MaxBalance.
MaxBalance == 2

\* ---------------------------------------------------------------- data
None == "None"

\* A recipient that parses as an H160 address (poller/mod.rs test, l.113).
GoodAddr == "0x2170ed0880ac9a755fd29b2688956bd959f933f8"
\* A recipient string that is no address.
BadAddr == "not-an-address"
\* An ERC20 contract address.
TokenAddr == "0x55d398326f99059ff775485246999027b3197955"

\* The strings <String as FromStr>::parse::<H160> accepts.
H160Strings == {GoodAddr, TokenAddr}

\* Invoice: recipient, amount (U256), method.token_address (Option).
Invoice(to, amount, token) == [to |-> to, amount |-> amount, token |-> token]

NullInvoice == Invoice("", 0, None)

Invoices ==
    { Invoice(GoodAddr, 2, None),
      Invoice(GoodAddr, 1, TokenAddr),
      Invoice(BadAddr, 1, None) }

\* Keys are Rust strings, here sequences of code points: "a" and "é".
KeyA == <<97>>
KeyE == <<233>>
Keys == {KeyA, KeyE}

\* A raw tree key that is no UTF-8 text.
RawKey == <<255>>

Min(a, b) == IF a < b THEN a ELSE b

\* ------------------------------------------------- str <-> bytes (UTF-8)
\* str::as_bytes for code points below 0x800.
RECURSIVE Utf8Encode(_)
Utf8Encode(s) ==
    IF s = <<>> THEN <<>>
    ELSE LET c == Head(s)
         IN (IF c < 128 THEN <<c>>
             ELSE <<192 + (c \div 64), 128 + (c % 64)>>) \o Utf8Encode(Tail(s))

\* String::from_utf8 on one- and two-byte sequences; anything else is an error.
RECURSIVE Utf8Decode(_)
Utf8Decode(b) ==
    IF b = <<>> THEN [ok |-> TRUE, val |-> <<>>]
    ELSE IF b[1] < 128
    THEN LET r == Utf8Decode(Tail(b))
         IN [ok |-> r.ok, val |-> <<b[1]>> \o r.val]
    ELSE IF b[1] >= 194 /\ b[1] <= 223 /\ Len(b) >= 2 /\ b[2] >= 128 /\ b[2] <= 191
    THEN LET r == Utf8Decode(Tail(Tail(b)))
         IN [ok |-> r.ok, val |-> <<(b[1] - 192) * 64 + (b[2] - 128)>> \o r.val]
    ELSE [ok |-> FALSE, val |-> <<>>]

\* ------------------------------------------- Serializable for Invoice
StrCode(s) ==
    CASE s = GoodAddr -> 1
      [] s = BadAddr -> 2
      [] s = TokenAddr -> 3
      [] OTHER -> 0

CodeStr(n) ==
    CASE n = 1 -> GoodAddr
      [] n = 2 -> BadAddr
      [] n = 3 -> TokenAddr
      [] OTHER -> ""

\* Serializable::to_bin: recipient, amount, then the Option tag and payload.
to_bin(v) ==
    <<StrCode(v.to), v.amount>>
        \o (IF v.token = None THEN <<0>> ELSE <<1, StrCode(v.token)>>)

\* Serializable::from_bin: the inverse, an error on any other byte string.
from_bin(b) ==
    IF /\ Len(b) >= 3
       /\ b[1] \in 1..3
       /\ b[2] >= 0
       /\ \/ b[3] = 0 /\ Len(b) = 3
          \/ b[3] = 1 /\ Len(b) = 4 /\ b[4] \in 1..3
    THEN [ok |-> TRUE,
          val |-> Invoice(CodeStr(b[1]), b[2],
                          IF b[3] = 0 THEN None ELSE CodeStr(b[4]))]
    ELSE [ok |-> FALSE, val |-> NullInvoice]

\* Bytes that are no encoded invoice.
CorruptBytes == <<9>>

\* ---------------------------------------------------------- sled tree
\* A tree is a map from byte keys to byte values: a function whose DOMAIN
\* is the set of keys present.
EmptyTree == [kb \in {} |-> <<>>]

\* Tree::insert
TreeInsert(db, kb, bin) == [x \in DOMAIN db \cup {kb} |-> IF x = kb THEN bin ELSE db[x]]

\* Tree::remove
TreeRemove(db, kb) == [x \in DOMAIN db \ {kb} |-> db[x]]

\* Byte-lexicographic order of sled keys.
LexLess(a, b) ==
    \E i \in 1..(Min(Len(a), Len(b)) + 1) :
        /\ \A j \in 1..(i - 1) : a[j] = b[j]
        /\ \/ i <= Len(a) /\ i <= Len(b) /\ a[i] < b[i]
           \/ i = Len(a) + 1 /\ i <= Len(b)

\* Tree::iter: the keys in ascending order.
RECURSIVE TreeIter(_)
TreeIter(S) ==
    IF S = {} THEN <<>>
    ELSE LET m == CHOOSE x \in S : \A y \in S \ {x} : LexLess(x, y)
         IN <<m>> \o TreeIter(S \ {m})

\* ------------------------------------------------------- the typed store
\* Results carry the DatabaseError variant, "Ok" for success.
get_from_tree(db, key, engineOk) ==
    IF ~engineOk THEN [err |-> "Get", val |-> <<>>]
    ELSE IF Utf8Encode(key) \in DOMAIN db
    THEN [err |-> "Ok", val |-> db[Utf8Encode(key)]]
    ELSE [err |-> "NotFound", val |-> <<>>]

get_all_from_tree(db, engineOk) ==
    IF ~engineOk THEN [err |-> "Get", val |-> <<>>]
    ELSE LET ks == TreeIter(DOMAIN db)
         IN [err |-> "Ok", val |-> [i \in 1..Len(ks) |-> <<ks[i], db[ks[i]]>>]]

\* A decoding loop that returns what it had decoded when it met a bad entry.
RECURSIVE DecodeAllPartial(_)
DecodeAllPartial(binary_data) ==
    IF binary_data = <<>> THEN [err |-> "Ok", val |-> <<>>]
    ELSE LET key == Utf8Decode(Head(binary_data)[1])
             value == from_bin(Head(binary_data)[2])
         IN IF ~key.ok \/ ~value.ok THEN [err |-> "Ok", val |-> <<>>]
            ELSE LET rest == DecodeAllPartial(Tail(binary_data))
                 IN [err |-> "Ok", val |-> <<<<key.val, value.val>>>> \o rest.val]

\* The decoding loop of get_all over the raw pairs: the first key that is no
\* UTF-8 or value that does not decode ends the call with Deserialize.
RECURSIVE DecodeAll(_)
DecodeAll(binary_data) ==
    IF binary_data = <<>> THEN [err |-> "Ok", val |-> <<>>]
    ELSE LET key == Utf8Decode(Head(binary_data)[1])
             value == from_bin(Head(binary_data)[2])
         IN IF ~key.ok \/ ~value.ok THEN [err |-> "Deserialize", val |-> <<>>]
            ELSE LET rest == DecodeAll(Tail(binary_data))
                 IN IF rest.err # "Ok" THEN [err |-> rest.err, val |-> <<>>]
                    ELSE [err |-> "Ok", val |-> <<<<key.val, value.val>>>> \o rest.val]

\* A decoding loop that leaves out the entries it cannot decode.
RECURSIVE DecodeAllSkipBad(_)
DecodeAllSkipBad(binary_data) ==
    IF binary_data = <<>> THEN <<>>
    ELSE LET key == Utf8Decode(Head(binary_data)[1])
             value == from_bin(Head(binary_data)[2])
         IN IF ~key.ok \/ ~value.ok THEN DecodeAllSkipBad(Tail(binary_data))
            ELSE <<<<key.val, value.val>>>> \o DecodeAllSkipBad(Tail(binary_data))

\* A get_all that returns the entries that decode and hides the others.
GetAllSkipBad(db, engineOk) ==
    LET binary_data == get_all_from_tree(db, engineOk)
    IN IF binary_data.err # "Ok" THEN [err |-> binary_data.err, val |-> <<>>]
       ELSE [err |-> "Ok", val |-> DecodeAllSkipBad(binary_data.val)]

get_all(db, engineOk) ==
    LET binary_data == get_all_from_tree(db, engineOk)
    IN IF binary_data.err # "Ok" THEN [err |-> binary_data.err, val |-> <<>>]
       ELSE DecodeAll(binary_data.val)

\* A get that answers a missing key with a default value.
GetOrDefault(db, key, engineOk) ==
    LET binary_data == get_from_tree(db, key, engineOk)
    IN IF binary_data.err = "NotFound" THEN [err |-> "Ok", val |-> NullInvoice]
       ELSE IF binary_data.err # "Ok" THEN [err |-> binary_data.err, val |-> NullInvoice]
       ELSE LET d == from_bin(binary_data.val)
            IN IF d.ok THEN [err |-> "Ok", val |-> d.val]
               ELSE [err |-> "Deserialize", val |-> NullInvoice]

get(db, key, engineOk) ==
    LET binary_data == get_from_tree(db, key, engineOk)
    IN IF binary_data.err # "Ok" THEN [err |-> binary_data.err, val |-> NullInvoice]
       ELSE LET d == from_bin(binary_data.val)
            IN IF d.ok THEN [err |-> "Ok", val |-> d.val]
               ELSE [err |-> "Deserialize", val |-> NullInvoice]

\* get of common/dbs/interface.rs: GetError, with Database for any engine error.
interface_get(db, key, engineOk) ==
    LET binary_data == get_from_tree(db, key, engineOk)
    IN IF binary_data.err = "Ok"
       THEN LET d == from_bin(binary_data.val)
            IN IF d.ok THEN [err |-> "Ok", val |-> d.val]
               ELSE [err |-> "Deserialize", val |-> NullInvoice]
       ELSE IF binary_data.err = "NotFound" THEN [err |-> "NotFound", val |-> NullInvoice]
       ELSE [err |-> "Database", val |-> NullInvoice]

\* Tree::first: the least key.
TreeFirst(S) == CHOOSE x \in S : \A y \in S \ {x} : LexLess(x, y)

\* Tree::last: the greatest key.
TreeLast(S) == CHOOSE x \in S : \A y \in S \ {x} : LexLess(y, x)

get_last_from_tree(db, engineOk) ==
    IF ~engineOk THEN [err |-> "Get", val |-> <<>>]
    ELSE IF DOMAIN db = {} THEN [err |-> "NotFound", val |-> <<>>]
    ELSE [err |-> "Ok", val |-> <<TreeLast(DOMAIN db), db[TreeLast(DOMAIN db)]>>]

get_last(db, engineOk) ==
    LET binary_data == get_last_from_tree(db, engineOk)
    IN IF binary_data.err # "Ok" THEN [err |-> binary_data.err, val |-> <<>>]
       ELSE LET key == Utf8Decode(binary_data.val[1])
                value == from_bin(binary_data.val[2])
            IN IF ~key.ok \/ ~value.ok THEN [err |-> "Deserialize", val |-> <<>>]
               ELSE [err |-> "Ok", val |-> <<key.val, value.val>>]

\* An insert that keeps the value a key already has.
SetIfAbsent(db, key, bin, engineOk) ==
    IF engineOk
    THEN [err |-> "Ok",
          tree |-> IF Utf8Encode(key) \in DOMAIN db THEN db
                   ELSE TreeInsert(db, Utf8Encode(key), bin)]
    ELSE [err |-> "Set", tree |-> db]

set_to_tree(db, key, bin, engineOk) ==
    IF engineOk THEN [err |-> "Ok", tree |-> TreeInsert(db, Utf8Encode(key), bin)]
    ELSE [err |-> "Set", tree |-> db]

set(db, key, data, engineOk) ==
    LET r == set_to_tree(db, key, to_bin(data), engineOk)
    IN IF r.err # "Ok" THEN [err |-> "Communicate", tree |-> db]
       ELSE [err |-> "Ok", tree |-> r.tree]

\* A delete that reports Ok for a key that was not there.
DeleteAbsentOk(db, key, engineOk) ==
    IF ~engineOk THEN [err |-> "NoDelete", tree |-> db]
    ELSE [err |-> "Ok", tree |-> TreeRemove(db, Utf8Encode(key))]

\* A delete that reports Ok and leaves the entry in the tree.
DeleteNoRemove(db, key, engineOk) ==
    IF ~engineOk THEN [err |-> "NoDelete", tree |-> db]
    ELSE IF Utf8Encode(key) \in DOMAIN db
    THEN [err |-> "Ok", tree |-> db]
    ELSE [err |-> "NotFound", tree |-> db]

delete(db, key, engineOk) ==
    IF ~engineOk THEN [err |-> "NoDelete", tree |-> db]
    ELSE IF Utf8Encode(key) \in DOMAIN db
    THEN [err |-> "Ok", tree |-> TreeRemove(db, Utf8Encode(key))]
    ELSE [err |-> "NotFound", tree |-> db]

\* ------------------------------------------------------------ the poller
\* What the chain answers to one balance query: an error or a balance.
OracleOutcomes ==
    {[ok |-> FALSE, bal |-> 0]} \cup {[ok |-> TRUE, bal |-> b] : b \in 0..MaxBalance}

\* A token check that compares the wrong way round.
TokenCheckLe(invoice, oracle) ==
    IF ~oracle.ok
    THEN [panic |-> FALSE, ok |-> FALSE, val |-> FALSE, asked |-> {"token"}]
    ELSE [panic |-> FALSE, ok |-> TRUE, val |-> oracle.bal <= invoice.amount,
          asked |-> {"token"}]

\* Results of the checks: panic (the task unwinds), ok (Result is Ok), val.
check_if_token_received(invoice, oracle) ==
    IF ~oracle.ok
    THEN [panic |-> FALSE, ok |-> FALSE, val |-> FALSE, asked |-> {"token"}]
    ELSE [panic |-> FALSE, ok |-> TRUE, val |-> oracle.bal >= invoice.amount,
          asked |-> {"token"}]

\* address.parse().unwrap() panics on a string that is no H160.
get_native_balance(address, oracle) ==
    IF address \notin H160Strings
    THEN [panic |-> TRUE, ok |-> FALSE, bal |-> 0, asked |-> {}]
    ELSE [panic |-> FALSE, ok |-> oracle.ok, bal |-> oracle.bal, asked |-> {"native"}]

\* A native check that wants more than the amount.
NativeCheckGt(invoice, oracle) ==
    LET balance_of_recipient == get_native_balance(invoice.to, oracle)
    IN IF balance_of_recipient.panic
       THEN [panic |-> TRUE, ok |-> FALSE, val |-> FALSE,
             asked |-> balance_of_recipient.asked]
       ELSE IF ~balance_of_recipient.ok
       THEN [panic |-> FALSE, ok |-> FALSE, val |-> FALSE,
             asked |-> balance_of_recipient.asked]
       ELSE [panic |-> FALSE, ok |-> TRUE,
             val |-> balance_of_recipient.bal > invoice.amount,
             asked |-> balance_of_recipient.asked]

check_if_native_received(invoice, oracle) ==
    LET balance_of_recipient == get_native_balance(invoice.to, oracle)
    IN IF balance_of_recipient.panic
       THEN [panic |-> TRUE, ok |-> FALSE, val |-> FALSE,
             asked |-> balance_of_recipient.asked]
       ELSE IF ~balance_of_recipient.ok
       THEN [panic |-> FALSE, ok |-> FALSE, val |-> FALSE,
             asked |-> balance_of_recipient.asked]
       ELSE [panic |-> FALSE, ok |-> TRUE,
             val |-> balance_of_recipient.bal >= invoice.amount,
             asked |-> balance_of_recipient.asked]

\* A check_and_process that takes a failed query for a payment.
CheckAndProcessErrTrue(invoice, oracle) ==
    LET r == IF invoice.token # None THEN check_if_token_received(invoice, oracle)
             ELSE check_if_native_received(invoice, oracle)
    IN [panic |-> r.panic, val |-> IF r.ok THEN r.val ELSE TRUE, asked |-> r.asked]

\* A check_and_process that asks for the native balance whatever the method.
CheckAndProcessNativeOnly(invoice, oracle) ==
    LET r == check_if_native_received(invoice, oracle)
    IN [panic |-> r.panic, val |-> r.ok /\ r.val, asked |-> r.asked]

\* check_and_process: an Err of either check is logged and becomes false.
check_and_process(invoice, oracle) ==
    LET r == IF invoice.token # None THEN check_if_token_received(invoice, oracle)
             ELSE check_if_native_received(invoice, oracle)
    IN [panic |-> r.panic, val |-> r.ok /\ r.val, asked |-> r.asked]

\* ------------------------------------------------------------- state
VARIABLES
    tree,       \* gateway.tree: the sled tree of invoices
    pc,         \* where poll_payments is
    all,        \* the snapshot the for loop of the cycle runs over
    idx,        \* the position of the for loop in all
    gaRes,      \* the result of the cycle's get_all ("none" before it)
    lockOwner,  \* who holds gateway.callback's mutex
    running,    \* the tasks inside the callback right now
    st,         \* per entry of all: what the cycle did with it
    fired,      \* per key: callbacks poll_payments has invoked
    delOk,      \* per key: deletes of poll_payments that returned Ok
    touched,    \* keys other tasks wrote since the snapshot or the loop's delete
    last,       \* the latest write call on the tree
    extOps,     \* calls made by other users of the tree
    rd          \* the latest read call on the tree and what it returned

vars ==
    <<tree, pc, all, idx, gaRes, lockOwner, running, st, fired, delOk, touched,
      last, extOps, rd>>

\* No answer of the oracle yet.
NoAnswer == [ok |-> FALSE, bal |-> 0]

\* q, ans, asked, nq: the balance query and its answer; d, rm: the delete and
\* the bytes it removed; cb: the callbacks.
NewStatus ==
    [q |-> "none", ans |-> NoAnswer, asked |-> {}, nq |-> 0, d |-> "none",
     rm |-> <<>>, cb |-> 0]

NoWrite == [op |-> "none", by |-> "none", key |-> <<>>, val |-> NullInvoice,
            res |-> "none", prev |-> "none"]

NoRead == [op |-> "none", key |-> <<>>, engineOk |-> TRUE, err |-> "none",
           val |-> <<>>]

Init ==
    /\ tree = EmptyTree
    /\ pc = "get_all"
    /\ all = <<>>
    /\ idx = 1
    /\ gaRes = "none"
    /\ lockOwner = "none"
    /\ running = {}
    /\ st = <<>>
    /\ fired = [k \in Keys |-> 0]
    /\ delOk = [k \in Keys |-> 0]
    /\ touched = {}
    /\ last = NoWrite
    /\ extOps = 0
    /\ rd = NoRead

\* What the oracle's answer means for an invoice (for the record in st).
QueryKind(invoice, oracle) ==
    IF ~oracle.ok THEN "err"
    ELSE IF oracle.bal < invoice.amount THEN "low" ELSE "ok"

\* A loop that starts its next cycle without the sleep.
NextPcNoSleep(i, snapshot) == IF i + 1 > Len(snapshot) THEN "get_all" ELSE "check"

\* The for loop moves to the next entry, or the cycle goes to its sleep.
NextPc(i, snapshot) == IF i + 1 > Len(snapshot) THEN "sleep" ELSE "check"

\* A loop that runs over the previous snapshot when get_all fails.
CycleStartStale(r, old) ==
    IF r.err = "Ok"
    THEN [all |-> r.val, pc |-> IF r.val = <<>> THEN "sleep" ELSE "check"]
    ELSE [all |-> old, pc |-> IF old = <<>> THEN "sleep" ELSE "check"]

\* The match on get_all's result: Ok(all) is iterated, Err is logged.
CycleStart(r, old) ==
    IF r.err = "Ok"
    THEN [all |-> r.val, pc |-> IF r.val = <<>> THEN "sleep" ELSE "check"]
    ELSE [all |-> <<>>, pc |-> "sleep"]

\* A loop that calls back whatever delete returned.
DeleteArmAlways(err) == "lock"

\* The match on delete's result: Ok(()) goes to the callback, Err is logged.
DeleteArm(err) == IF err = "Ok" THEN "lock" ELSE "next"

\* A loop that calls back a paid invoice without deleting it.
CheckArmNoDelete(check_result) == IF check_result THEN "lock" ELSE "next"

\* A loop that deletes every invoice it has looked at.
CheckArmAlwaysDelete(check_result) == "delete"

\* if check_result { delete ... }
CheckArm(check_result) == IF check_result THEN "delete" ELSE "next"

\* A lock that is handed out while somebody holds it.
MutexAlways(owner) == TRUE

\* tokio Mutex::lock resolves only while nobody holds the mutex.
MutexAcquirable(owner) == owner = "none"

\* get_all::<Invoice>(&gateway.tree).await
LoopGetAll ==
    /\ pc = "get_all"
    /\ \E engineOk \in BOOLEAN :
        LET r == get_all(tree, engineOk)
            c == CycleStart(r, all)
        IN /\ gaRes' = r.err
           /\ all' = c.all
           /\ st' = [i \in 1..Len(c.all) |-> NewStatus]
           /\ pc' = c.pc
    /\ idx' = 1
    /\ touched' = {}
    /\ UNCHANGED <<rd, tree, lockOwner, running, fired, delOk, last, extOps>>

\* check_and_process(gateway.web3.clone(), entry.clone().1).await
LoopCheck ==
    /\ pc = "check"
    /\ \E oracle \in OracleOutcomes :
        LET invoice == all[idx][2]
            r == check_and_process(invoice, oracle)
        IN IF r.panic
           THEN /\ pc' = "panicked"
                /\ st' = [st EXCEPT ![idx].q = "panic"]
                /\ idx' = idx
           ELSE /\ st' = [st EXCEPT ![idx] = [@ EXCEPT !.q = QueryKind(invoice, oracle),
                                                      !.ans = oracle,
                                                      !.asked = @ \cup r.asked,
                                                      !.nq = @ + Cardinality(r.asked)]]
                /\ IF CheckArm(r.val) = "next"
                   THEN pc' = NextPc(idx, all) /\ idx' = idx + 1
                   ELSE pc' = CheckArm(r.val) /\ idx' = idx
    /\ UNCHANGED <<rd, tree, all, gaRes, lockOwner, running, fired, delOk, touched,
                   last, extOps>>

\* delete(&gateway.tree, &entry.0).await
LoopDelete ==
    /\ pc = "delete"
    /\ \E engineOk \in BOOLEAN :
        LET key == all[idx][1]
            r == delete(tree, key, engineOk)
        IN /\ tree' = r.tree
           /\ st' = [st EXCEPT ![idx] = [@ EXCEPT !.d = r.err,
                                                 !.rm = IF r.err = "Ok"
                                                        THEN tree[Utf8Encode(key)]
                                                        ELSE <<>>]]
           /\ delOk' = IF r.err = "Ok" THEN [delOk EXCEPT ![key] = @ + 1] ELSE delOk
           /\ touched' = IF r.err = "Ok" THEN touched \ {key} ELSE touched
           /\ last' = [op |-> "delete", by |-> "loop", key |-> key,
                       val |-> NullInvoice, res |-> r.err,
                       prev |-> IF Utf8Encode(key) \in DOMAIN tree
                                THEN "present" ELSE "absent"]
           /\ IF DeleteArm(r.err) = "next"
              THEN pc' = NextPc(idx, all) /\ idx' = idx + 1
              ELSE pc' = DeleteArm(r.err) /\ idx' = idx
    /\ UNCHANGED <<rd, all, gaRes, lockOwner, running, fired, extOps>>

\* gateway.callback.lock().await, and the call of the callback starts
LoopLock ==
    /\ pc = "lock"
    /\ MutexAcquirable(lockOwner)
    /\ lockOwner' = "loop"
    /\ running' = running \cup {"loop"}
    /\ fired' = [fired EXCEPT ![all[idx][1]] = @ + 1]
    /\ st' = [st EXCEPT ![idx].cb = @ + 1]
    /\ pc' = "callback"
    /\ UNCHANGED <<rd, tree, all, idx, gaRes, delOk, touched, last, extOps>>

\* the callback's future completes and the guard is dropped
LoopCallbackDone ==
    /\ pc = "callback"
    /\ running' = running \ {"loop"}
    /\ lockOwner' = IF lockOwner = "loop" THEN "none" ELSE lockOwner
    /\ pc' = NextPc(idx, all)
    /\ idx' = idx + 1
    /\ UNCHANGED <<rd, tree, all, gaRes, st, fired, delOk, touched, last, extOps>>

\* tokio::time::sleep(poll_interval_seconds).await, then the next iteration
LoopSleep ==
    /\ pc = "sleep"
    /\ pc' = "get_all"
    /\ gaRes' = "none"
    /\ UNCHANGED <<rd, tree, all, idx, lockOwner, running, st, fired, delOk, touched,
                   last, extOps>>

\* ------------------------------------------------- the other tasks
\* Another user of the tree calls set(key, invoice).
ExtSet(key, data) ==
    /\ extOps < MaxExtOps
    /\ \E engineOk \in BOOLEAN :
        LET r == set(tree, key, data, engineOk)
        IN /\ tree' = r.tree
           /\ last' = [op |-> "set", by |-> "ext", key |-> key, val |-> data,
                       res |-> r.err,
                       prev |-> IF Utf8Encode(key) \notin DOMAIN tree THEN "absent"
                                ELSE IF tree[Utf8Encode(key)] = to_bin(data)
                                THEN "same" ELSE "other"]
           /\ touched' = IF r.err = "Ok" THEN touched \cup {key} ELSE touched
    /\ extOps' = extOps + 1
    /\ rd' = NoRead
    /\ UNCHANGED <<pc, all, idx, gaRes, lockOwner, running, st, fired, delOk>>

\* Another user of the tree calls delete(key).
ExtDelete(key) ==
    /\ extOps < MaxExtOps
    /\ \E engineOk \in BOOLEAN :
        LET r == delete(tree, key, engineOk)
        IN /\ tree' = r.tree
           /\ last' = [op |-> "delete", by |-> "ext", key |-> key,
                       val |-> NullInvoice, res |-> r.err,
                       prev |-> IF Utf8Encode(key) \in DOMAIN tree
                                THEN "present" ELSE "absent"]
           /\ touched' = IF r.err = "Ok" THEN touched \cup {key} ELSE touched
    /\ extOps' = extOps + 1
    /\ rd' = NoRead
    /\ UNCHANGED <<pc, all, idx, gaRes, lockOwner, running, st, fired, delOk>>

\* The raw writes that leave an entry get_all cannot decode.
RawWrites ==
    {<<RawKey, to_bin(Invoice(GoodAddr, 1, TokenAddr))>>,
     <<Utf8Encode(KeyA), CorruptBytes>>}

\* A user of the sled tree inserts raw bytes, bypassing set.
ExtRawInsert(kb, bin) ==
    /\ extOps < MaxExtOps
    /\ tree' = TreeInsert(tree, kb, bin)
    /\ last' = [op |-> "raw_insert", by |-> "ext", key |-> kb, val |-> NullInvoice,
                res |-> "Ok", prev |-> "none"]
    /\ touched' = touched \cup {k \in Keys : Utf8Encode(k) = kb}
    /\ extOps' = extOps + 1
    /\ rd' = NoRead
    /\ UNCHANGED <<pc, all, idx, gaRes, lockOwner, running, st, fired, delOk>>

\* A user of the sled tree removes an entry by its raw key.
ExtRawRemove(kb) ==
    /\ extOps < MaxExtOps
    /\ kb \in DOMAIN tree
    /\ tree' = TreeRemove(tree, kb)
    /\ last' = [op |-> "raw_remove", by |-> "ext", key |-> kb, val |-> NullInvoice,
                res |-> "Ok", prev |-> "present"]
    /\ touched' = touched
    /\ extOps' = extOps + 1
    /\ rd' = NoRead
    /\ UNCHANGED <<pc, all, idx, gaRes, lockOwner, running, st, fired, delOk>>

\* Another task sharing gateway.callback locks the mutex and calls the sink.
OtherLock ==
    /\ MutexAcquirable(lockOwner)
    /\ lockOwner' = "other"
    /\ running' = running \cup {"other"}
    /\ UNCHANGED <<rd, tree, pc, all, idx, gaRes, st, fired, delOk, touched, last, extOps>>

\* Its call completes and its guard is dropped.
OtherUnlock ==
    /\ "other" \in running
    /\ running' = running \ {"other"}
    /\ lockOwner' = IF lockOwner = "other" THEN "none" ELSE lockOwner
    /\ UNCHANGED <<rd, tree, pc, all, idx, gaRes, st, fired, delOk, touched, last, extOps>>

Next ==
    \/ LoopGetAll
    \/ LoopCheck
    \/ LoopDelete
    \/ LoopLock
    \/ LoopCallbackDone
    \/ LoopSleep
    \/ \E key \in Keys, data \in Invoices : ExtSet(key, data)
    \/ \E key \in Keys : ExtDelete(key)
    \/ \E w \in RawWrites : ExtRawInsert(w[1], w[2])
    \/ ExtRawRemove(RawKey)
    \/ OtherLock
    \/ OtherUnlock

Spec == Init /\ [][Next]_vars

\* The steps of poll_payments that are ready as soon as the loop is at them;
\* the wait for the mutex is not one of them.
LoopStep == LoopGetAll \/ LoopCheck \/ LoopDelete \/ LoopCallbackDone \/ LoopSleep

\* The tokio runtime keeps polling the spawned task, every await but the
\* mutex resolves, the mutex queues its waiters first in first out, and
\* another task's callback returns.
LiveSpec ==
    /\ Spec
    /\ WF_vars(LoopStep)
    /\ SF_vars(LoopLock)
    /\ WF_vars(OtherUnlock)

\* ------------------------------------------- the typed store on its own
\* A user of the store calls get(key) of db/mod.rs.
StoreGet(key) ==
    /\ \E engineOk \in BOOLEAN :
        LET r == get(tree, key, engineOk)
        IN rd' = [op |-> "get", key |-> key, engineOk |-> engineOk, err |-> r.err,
                  val |-> r.val]
    /\ UNCHANGED <<tree, pc, all, idx, gaRes, lockOwner, running, st, fired, delOk,
                   touched, last, extOps>>

\* A user of the store calls get(key) of common/dbs/interface.rs.
StoreInterfaceGet(key) ==
    /\ \E engineOk \in BOOLEAN :
        LET r == interface_get(tree, key, engineOk)
        IN rd' = [op |-> "interface_get", key |-> key, engineOk |-> engineOk,
                  err |-> r.err, val |-> r.val]
    /\ UNCHANGED <<tree, pc, all, idx, gaRes, lockOwner, running, st, fired, delOk,
                   touched, last, extOps>>

\* A user of the store calls get_all().
StoreGetAll ==
    /\ \E engineOk \in BOOLEAN :
        LET r == get_all(tree, engineOk)
        IN rd' = [op |-> "get_all", key |-> <<>>, engineOk |-> engineOk,
                  err |-> r.err, val |-> r.val]
    /\ UNCHANGED <<tree, pc, all, idx, gaRes, lockOwner, running, st, fired, delOk,
                   touched, last, extOps>>

\* A user of the store calls get_last().
StoreGetLast ==
    /\ \E engineOk \in BOOLEAN :
        LET r == get_last(tree, engineOk)
        IN rd' = [op |-> "get_last", key |-> <<>>, engineOk |-> engineOk,
                  err |-> r.err, val |-> r.val]
    /\ UNCHANGED <<tree, pc, all, idx, gaRes, lockOwner, running, st, fired, delOk,
                   touched, last, extOps>>

StoreNext ==
    \/ \E key \in Keys, data \in Invoices : ExtSet(key, data)
    \/ \E key \in Keys : ExtDelete(key)
    \/ \E w \in RawWrites : ExtRawInsert(w[1], w[2])
    \/ ExtRawRemove(RawKey)
    \/ \E key \in Keys : StoreGet(key)
    \/ \E key \in Keys : StoreInterfaceGet(key)
    \/ StoreGetAll
    \/ StoreGetLast

\* The store driven by its callers alone, the poller not running.
StoreSpec == Init /\ [][StoreNext]_vars

\* ------------------------------------------------------------- claims
DeleteErrors == {"NotFound", "NoDelete"}

SnapKeys(snapshot) == {snapshot[j][1] : j \in DOMAIN snapshot}

\* The step is the poller's get_all.
GetAllStep == pc = "get_all" /\ pc' # "get_all"

\* C1 as stated: the callback fires at most once for any invoice key, and
\* every firing for a key follows a delete of that key by the loop that
\* returned Ok.
C1_AtMostOncePerKey ==
    \A k \in Keys : fired[k] <= 1 /\ fired[k] <= delOk[k]

\* C1 as amended: for every key the callbacks fired never outnumber the
\* deletes of that key by the loop that returned Ok, an entry of a snapshot
\* is called back at most once and only after its delete returned Ok; a key
\* that is stored again after its deletion can fire again.
C1_AtMostOncePerDelete ==
    /\ \A k \in Keys : fired[k] <= delOk[k] /\ delOk[k] <= fired[k] + 1
    /\ \A i \in DOMAIN st : st[i].cb <= 1 /\ (st[i].cb = 1 => st[i].d = "Ok")
    /\ pc \in {"lock", "callback"} => st[idx].d = "Ok"

\* A key was stored again after its callback, deleted again and called back
\* a second time.
C1_Witness == \E k \in Keys : fired[k] = 2 /\ delOk[k] = 2

\* C2: when the delete of a paid invoice returns an error (NotFound or
\* NoDelete) the cycle does not call back for that entry, and the loop moves
\* to the next entry of the snapshot (or to the sleep after the last one).
C2_NoCallbackOnDeleteError ==
    /\ [](\A i \in DOMAIN st :
            st[i].d \in DeleteErrors => st[i].cb = 0 /\ st[i].q = "ok" /\ idx > i)
    /\ [][(pc = "delete" /\ pc' # "delete" /\ st'[idx].d \in DeleteErrors)
            => /\ fired' = fired
               /\ lockOwner' = lockOwner /\ running' = running
               /\ idx' = idx + 1
               /\ pc' = (IF idx < Len(all) THEN "check" ELSE "sleep")]_vars

\* The delete of a paid entry returned NotFound, no callback was made for it
\* and the entry after it has been queried.
C2_Witness ==
    \E i \in DOMAIN st :
        /\ st[i].d = "NotFound" /\ st[i].cb = 0
        /\ i + 1 \in DOMAIN st /\ st[i + 1].q # "none"

\* C3: an entry whose balance query answered balance >= amount and whose
\* delete returned Ok is called back exactly once before the loop moves on,
\* and its key is absent from the tree and from the next cycle's snapshot
\* unless another task stored the key again after the delete.
C3_SettledCalledBackOnce ==
    /\ [](\A i \in DOMAIN st :
            st[i].d = "Ok" =>
                /\ st[i].q = "ok"
                /\ st[i].cb <= 1
                /\ (idx > i => st[i].cb = 1)
                /\ (all[i][1] \notin touched => Utf8Encode(all[i][1]) \notin DOMAIN tree))
    /\ [][GetAllStep =>
            \A i \in DOMAIN st :
                (st[i].d = "Ok" /\ all[i][1] \notin touched)
                    => all[i][1] \notin SnapKeys(all')]_vars

\* A cycle deleted a paid entry, called back once for it and reached its sleep
\* with nobody having stored the key again.
C3_Witness ==
    \E i \in DOMAIN st :
        /\ st[i].q = "ok" /\ st[i].d = "Ok" /\ st[i].cb = 1
        /\ pc = "sleep" /\ all[i][1] \notin touched

\* The entry i of the snapshot is in the tree as the snapshot read it.
Stored(i) ==
    /\ Utf8Encode(all[i][1]) \in DOMAIN tree
    /\ tree[Utf8Encode(all[i][1])] = to_bin(all[i][2])

\* The step is a call of another user of the tree on the byte key kb.
ExtWriteOf(kb) ==
    /\ extOps' = extOps + 1
    /\ last'.by = "ext"
    /\ \/ last'.op \in {"set", "delete"} /\ Utf8Encode(last'.key) = kb
       \/ last'.op \in {"raw_insert", "raw_remove"} /\ last'.key = kb

\* The step is the loop's delete of entry idx, found paid in this cycle.
LoopDeleteOfPaid(kb) ==
    /\ pc = "delete" /\ pc' # "delete"
    /\ Utf8Encode(all[idx][1]) = kb
    /\ st[idx].q = "ok"
    /\ st'[idx].d = "Ok"

\* The step is the loop's balance query of entry idx.
CheckStep == pc = "check" /\ st' # st

C5_UnderfundedUntouched ==
    /\ [](\A i \in DOMAIN st :
            st[i].q = "low" =>
                /\ st[i].d = "none" /\ st[i].cb = 0
                /\ (all[i][1] \notin touched => Stored(i)))
    /\ [][(CheckStep /\ st'[idx].q = "low")
            => /\ tree' = tree /\ fired' = fired /\ delOk' = delOk
               /\ pc' \in {"check", "sleep"} /\ idx' = idx + 1]_vars
    /\ [][(GetAllStep /\ gaRes' = "Ok")
            => \A i \in DOMAIN st :
                 (st[i].q = "low" /\ all[i][1] \notin touched)
                     => \E j \in DOMAIN all' : all'[j] = all[i]]_vars

\* A token invoice was queried with a balance below its amount, and the cycle
\* has reached its sleep with the entry stored.
C5_Witness ==
    \E i \in DOMAIN st :
        /\ st[i].q = "low" /\ all[i][2].token # None
        /\ pc = "sleep" /\ Stored(i)

\* C6: an entry whose balance query failed is neither deleted nor called
\* back, stays stored unless another task wrote its key, and the loop goes on
\* with the entry after it: no entry before the loop's position is left
\* unqueried, and a cycle that reaches its sleep has queried every entry.
C6_OracleFailureSkipsOnlyThatInvoice ==
    /\ [](\A i \in DOMAIN st :
            /\ st[i].q = "err" =>
                 /\ st[i].d = "none" /\ st[i].cb = 0 /\ idx > i
                 /\ (all[i][1] \notin touched => Stored(i))
            /\ i < idx => st[i].q # "none")
    /\ [](pc = "sleep" => idx = Len(all) + 1)
    /\ [][(CheckStep /\ st'[idx].q = "err")
            => /\ tree' = tree /\ fired' = fired /\ delOk' = delOk
               /\ idx' = idx + 1
               /\ pc' = (IF idx < Len(all) THEN "check" ELSE "sleep")]_vars

\* The query of an entry failed and the entry after it has been queried and
\* found paid in the same cycle.
C6_Witness ==
    \E i \in DOMAIN st :
        /\ st[i].q = "err" /\ Stored(i)
        /\ i + 1 \in DOMAIN st /\ st[i + 1].q = "ok"

\* C7: when get_all fails the cycle queries, deletes and calls back nothing
\* and leaves the tree alone; it goes to its sleep, and the sleep is followed
\* by a new get_all whose snapshot is read from the tree as it is then.
C7_GetAllFailureSkipsCycle ==
    /\ [](gaRes \in {"Get", "Deserialize"} => pc = "sleep" /\ all = <<>> /\ st = <<>>)
    /\ [][(GetAllStep /\ gaRes' # "Ok")
            => /\ gaRes' \in {"Get", "Deserialize"}
               /\ tree' = tree /\ fired' = fired /\ delOk' = delOk
               /\ lockOwner' = lockOwner /\ running' = running
               /\ pc' = "sleep"]_vars
    /\ [][(pc = "sleep" /\ pc' # "sleep") => (pc' = "get_all" /\ tree' = tree)]_vars
    /\ [][(GetAllStep /\ gaRes' = "Ok") => all' = get_all(tree, TRUE).val]_vars

\* get_all failed while the tree holds an invoice that decodes, and the cycle
\* is at its sleep.
C7_Witness ==
    /\ gaRes \in {"Get", "Deserialize"} /\ pc = "sleep"
    /\ \E k \in Keys :
         Utf8Encode(k) \in DOMAIN tree /\ from_bin(tree[Utf8Encode(k)]).ok

\* C8: at most one task is inside the callback at any time; the poller is
\* inside the callback exactly while it holds the mutex, which is exactly
\* while it is at the callback call, and another task is inside the callback
\* only while it holds the mutex.
C8_CallbackMutualExclusion ==
    /\ Cardinality(running) <= 1
    /\ ("loop" \in running) = (pc = "callback")
    /\ (lockOwner = "loop") = (pc = "callback")
    /\ ("other" \in running) = (lockOwner = "other")

\* The poller waits for the mutex while another task is inside the callback.
C8_Witness == pc = "lock" /\ lockOwner = "other" /\ "other" \in running

\* C9 as stated: poll_payments never stops: whatever the tree holds and
\* whatever fails, the loop is at one of the steps of its cycle.
C9_LoopNeverStops == pc \in {"get_all", "check", "delete", "lock", "callback", "sleep"}

\* C10: after a set(k, v) that returned Ok, and until the next write call on
\* the tree, get(k) returns v and the tree's enumeration holds exactly one
\* entry for k, which decodes to v; this covers a set over another value and
\* a set repeated.
C10_SetOverwritesIdempotent ==
    (last.op = "set" /\ last.res = "Ok") =>
        LET raw == get_all_from_tree(tree, TRUE).val
            hits == {j \in DOMAIN raw : raw[j][1] = Utf8Encode(last.key)}
        IN /\ get(tree, last.key, TRUE) = [err |-> "Ok", val |-> last.val]
           /\ Cardinality(hits) = 1
           /\ \A j \in hits : from_bin(raw[j][2]) = [ok |-> TRUE, val |-> last.val]

\* A set(k, v) returned Ok on a key that already held v.
C10_Witness == last.op = "set" /\ last.res = "Ok" /\ last.prev = "same"

\* The step is a call of delete, by the poller or by another task.
DeleteCall ==
    /\ last'.op = "delete"
    /\ \/ extOps' = extOps + 1 /\ last'.by = "ext"
       \/ pc = "delete" /\ pc' # "delete"

\* C11: unless the engine fails, delete(key) returns Ok exactly when the key
\* is present, and then removes that entry and leaves every other entry as
\* it was; on an absent key it returns NotFound and leaves the tree as it
\* was. A key comes back only by a set or an insert, so of two deletes of a
\* key with no set in between at most one returns Ok.
C11_DeletePresentOkAbsentNotFound ==
    /\ [][DeleteCall =>
            LET kb == Utf8Encode(last'.key)
            IN /\ last'.res \in {"Ok", "NotFound", "NoDelete"}
               /\ last'.res # "NoDelete" => (last'.res = "Ok") = (kb \in DOMAIN tree)
               /\ last'.res = "Ok" =>
                    /\ DOMAIN tree' = DOMAIN tree \ {kb}
                    /\ \A x \in DOMAIN tree' : tree'[x] = tree[x]
               /\ last'.res # "Ok" => tree' = tree
               /\ (last.op = "delete" /\ last.res = "Ok" /\ last.key = last'.key)
                    => last'.res # "Ok"]_vars
    /\ []((last.op = "delete" /\ last.res = "Ok")
            => Utf8Encode(last.key) \notin DOMAIN tree)
    /\ [][\A kb \in DOMAIN tree' \ DOMAIN tree :
            /\ extOps' = extOps + 1
            /\ \/ last'.op = "set" /\ last'.res = "Ok" /\ Utf8Encode(last'.key) = kb
               \/ last'.op = "raw_insert" /\ last'.key = kb]_vars

\* The poller deleted a key with Ok, nobody stored it since, and a delete of
\* the same key by another task has returned NotFound.
C11_Witness ==
    /\ last.op = "delete" /\ last.by = "ext" /\ last.res = "NotFound"
    /\ last.key \notin touched
    /\ \E i \in DOMAIN st : all[i][1] = last.key /\ st[i].d = "Ok"

\* What a get of the key of rd must return, the engine error being named e.
GetContract(e) ==
    LET kb == Utf8Encode(rd.key)
    IN IF ~rd.engineOk THEN rd.err = e
       ELSE IF kb \notin DOMAIN tree THEN rd.err = "NotFound"
       ELSE IF ~from_bin(tree[kb]).ok THEN rd.err = "Deserialize"
       ELSE rd.err = "Ok" /\ rd.val = from_bin(tree[kb]).val

\* C12 as stated: get(key) of db/mod.rs returns the stored value when the key
\* is present and decodes, NotFound when the key is absent, Deserialize when
\* the bytes do not decode, and Database when the engine fails.
C12_GetFailsWithDatabase == rd.op = "get" => GetContract("Database")

\* C12 as amended: the same, with the engine failure reported as Get by get
\* of db/mod.rs (DatabaseError::Get) and as Database by get of
\* common/dbs/interface.rs (GetError::Database); a get leaves the tree as it
\* was.
C12_GetFailsWithGet ==
    /\ [](rd.op = "get" => GetContract("Get"))
    /\ [](rd.op = "interface_get" => GetContract("Database"))
    /\ [][rd'.op \in {"get", "interface_get"} => tree' = tree]_vars

\* A get of db/mod.rs met an engine failure on a key that is stored.
C12_Witness ==
    /\ rd.op = "get" /\ ~rd.engineOk /\ rd.err = "Get"
    /\ Utf8Encode(rd.key) \in DOMAIN tree

\* The byte keys of the tree whose entry get_all cannot decode.
BadEntries(db) ==
    {kb \in DOMAIN db : ~Utf8Decode(kb).ok \/ ~from_bin(db[kb]).ok}

\* C13: unless the engine fails, get_all returns every entry of the tree,
\* each once and decoded, when all entries decode; when an entry has a key
\* that is no UTF-8 or a value that does not decode it fails with Deserialize
\* and returns no entry at all.
C13_GetAllAllOrNothing ==
    (rd.op = "get_all" /\ rd.engineOk) =>
        IF BadEntries(tree) = {}
        THEN /\ rd.err = "Ok"
             /\ Len(rd.val) = Cardinality(DOMAIN tree)
             /\ {rd.val[j] : j \in DOMAIN rd.val}
                  = {<<Utf8Decode(kb).val, from_bin(tree[kb]).val>> : kb \in DOMAIN tree}
        ELSE rd.err = "Deserialize" /\ rd.val = <<>>

\* get_all failed with Deserialize on a tree that holds one entry it cannot
\* decode and an entry that decodes and sorts before it.
C13_Witness ==
    /\ rd.op = "get_all" /\ rd.err = "Deserialize"
    /\ Cardinality(BadEntries(tree)) = 1
    /\ \E kb \in DOMAIN tree \ BadEntries(tree) :
         \A bad \in BadEntries(tree) : LexLess(kb, bad)

Decided(i) == i < idx \/ (i = idx /\ pc \in {"delete", "lock", "callback"})

\* The loop has taken entry i as settled: it has gone on to its delete.
TakenAsSettled(i) == st[i].d # "none" \/ (pc = "delete" /\ idx = i)

\* C15: in a cycle the loop takes an entry as settled (goes on to delete it)
\* exactly when its balance query returned a balance and that balance is at
\* least the invoice's amount; a balance equal to the amount settles and one
\* below it does not, whatever the other entries of the snapshot are.
C15_SettledIffBalanceGeAmount ==
    \A i \in DOMAIN all :
        LET invoice == all[i][2]
        IN /\ TakenAsSettled(i) => Decided(i)
           /\ Decided(i) =>
                (TakenAsSettled(i) <=>
                    (st[i].ans.ok /\ st[i].ans.bal >= invoice.amount))

\* One cycle over two entries: a balance equal to the amount was taken as
\* settled, a balance of the amount minus one was not.
C15_Witness ==
    /\ pc = "sleep" /\ Len(all) = 2
    /\ \E i, j \in DOMAIN all :
        /\ st[i].ans.ok /\ st[i].ans.bal = all[i][2].amount /\ st[i].d = "Ok"
        /\ st[j].ans.ok /\ st[j].ans.bal = all[j][2].amount - 1
        /\ st[j].d = "none"

\* The balance an invoice's method reads.
SourceOf(invoice) == IF invoice.token # None THEN "token" ELSE "native"

\* C16: in a cycle the loop sends one balance query for each entry it has
\* decided about, to the token contract when the invoice names one and for the
\* native balance when it names none, and never a query to the other source
\* nor a second query.
C16_OneQueryFromOwnSource ==
    \A i \in DOMAIN all :
        LET invoice == all[i][2]
        IN /\ st[i].nq <= 1
           /\ st[i].asked \subseteq {SourceOf(invoice)}
           /\ Decided(i) => st[i].nq = 1 /\ st[i].asked = {SourceOf(invoice)}

\* One cycle has queried a native invoice and a token invoice.
C16_Witness ==
    /\ pc = "sleep" /\ Len(all) = 2
    /\ \E i, j \in DOMAIN all :
        /\ all[i][2].token = None /\ st[i].asked = {"native"} /\ st[i].nq = 1
        /\ all[j][2].token # None /\ st[j].asked = {"token"} /\ st[j].nq = 1

\* The loop is through with entry i: it was queried once, deleted if it was
\* taken as settled, and called back if the delete returned Ok.
Finished(i) ==
    /\ st[i].nq = 1
    /\ (st[i].ans.ok /\ st[i].ans.bal >= all[i][2].amount) => st[i].d # "none"
    /\ st[i].d = "Ok" => st[i].cb = 1
    /\ st[i].d # "Ok" => st[i].cb = 0

\* The scan is at entry idx: the entries before it are finished, the entries
\* after it untouched, and the query of an entry starts only when no callback
\* of the loop is running.
ScanInOrder ==
    /\ pc \in {"check", "delete", "lock", "callback"} => idx \in DOMAIN all
    /\ pc \in {"sleep", "get_all"} => idx = Len(all) + 1
    /\ pc = "check" => st[idx] = NewStatus /\ "loop" \notin running
    /\ \A i \in DOMAIN all :
        /\ i < idx => Finished(i)
        /\ i > idx => st[i] = NewStatus

\* C18: the loop handles the entries of a snapshot one after the other in the
\* order get_all returned them, the query, delete and callback of one entry
\* being over before the query of the next starts; a cycle's snapshot is not
\* replaced while it is scanned, and get_all is called again only from the
\* sleep that follows the scan of the whole snapshot.
C18_CyclesSequential ==
    /\ []ScanInOrder
    /\ [][/\ (pc' = "get_all" /\ pc # "get_all") =>
                (pc = "sleep" /\ \A i \in DOMAIN all : Finished(i))
          /\ pc # "get_all" => (all' = all /\ idx' \in {idx, idx + 1})
          /\ (pc # "get_all" /\ idx' = idx + 1) =>
                (pc \in {"check", "delete", "callback"}
                    /\ pc' \in {"check", "sleep"})
          /\ GetAllStep => (idx' = 1 /\ pc' \in {"check", "sleep"}
                               /\ \A i \in DOMAIN all' : st'[i] = NewStatus)]_vars

\* The first entry has been deleted and called back, the callback is over,
\* and the query of the second is about to start.
C18_Witness ==
    /\ pc = "check" /\ idx = 2
    /\ st[1].d = "Ok" /\ st[1].cb = 1 /\ "loop" \notin running

\* C19: whenever the loop has called the callback for an entry of the
\* snapshot, the invoice it passed (the snapshot's value) is the value its
\* delete of that key removed from the tree.
C19_CallbackGetsRemovedValue ==
    \A i \in DOMAIN all :
        st[i].cb >= 1 => st[i].rm = to_bin(all[i][2])

\* The step is a delete of the loop that removed an entry.
LoopRemoves == pc = "delete" /\ pc' # "delete" /\ st'[idx].d = "Ok"

\* The step is the loop's call of the callback.
LoopCallsBack == pc = "lock" /\ pc' = "callback"

\* C20 as stated: while the tree holds an entry get_all cannot decode, the
\* loop deletes no entry and calls no callback.
C20_NoSettlementWhileCorrupt ==
    [][(BadEntries(tree) # {} /\ BadEntries(tree') # {})
          => ~(LoopRemoves \/ LoopCallsBack)]_vars

\* C20 as amended: a cycle whose get_all is called while the tree holds an
\* entry it cannot decode gets no snapshot and goes to its sleep, so it
\* deletes nothing and calls back nothing; every delete and callback of the
\* loop is in a cycle whose get_all returned Ok; and the first get_all called
\* when no such entry is left returns, unless the engine fails, every entry
\* of the tree, and the scan starts again.
C20_NoSettlementInCycleStartedCorrupt ==
    /\ [](pc \in {"check", "delete", "lock", "callback"} => gaRes = "Ok")
    /\ [][(GetAllStep /\ BadEntries(tree) # {})
            => /\ gaRes' \in {"Deserialize", "Get"}
               /\ all' = <<>> /\ pc' = "sleep"
               /\ tree' = tree /\ fired' = fired /\ delOk' = delOk]_vars
    /\ [][(LoopRemoves \/ LoopCallsBack) => gaRes = "Ok"]_vars
    /\ [][(GetAllStep /\ BadEntries(tree) = {} /\ gaRes' # "Get")
            => /\ gaRes' = "Ok"
               /\ {Utf8Encode(k) : k \in SnapKeys(all')} = DOMAIN tree
               /\ \A j \in DOMAIN all' :
                    to_bin(all'[j][2]) = tree[Utf8Encode(all'[j][1])]
               /\ pc' = IF DOMAIN tree = {} THEN "sleep" ELSE "check"]_vars

\* A cycle's get_all has failed on an entry it cannot decode, which is still
\* there next to an invoice that decodes, and the cycle is at its sleep with
\* nothing deleted or called back.
C20_Witness ==
    /\ gaRes = "Deserialize" /\ pc = "sleep" /\ all = <<>>
    /\ BadEntries(tree) # {}
    /\ DOMAIN tree \ BadEntries(tree) # {}

\* The step is the loop's balance query of the entry with key k.
CheckOf(k) == CheckStep /\ all[idx][1] = k

\* The step is the loop's delete of the entry with key k.
LoopDeleteOf(k) == pc = "delete" /\ pc' # "delete" /\ all[idx][1] = k

\* The query of k never panics; from some cycle on get_all succeeds, the
\* query of k reports a balance of at least the amount, nobody but the loop
\* removes k and, on top of what the claim asks, the engine does not fail the
\* loop's delete of k.
FromSomeCycleOnGood(k) ==
    /\ <>[][GetAllStep => gaRes' = "Ok"]_vars
    /\ [](\A i \in DOMAIN all : all[i][1] = k => st[i].q # "panic")
    /\ <>[][CheckOf(k) => st'[idx].q = "ok"]_vars
    /\ <>[][Utf8Encode(k) \in DOMAIN tree
              => (Utf8Encode(k) \in DOMAIN tree' \/ LoopDeleteOf(k))]_vars
    /\ <>[][LoopDeleteOf(k) => st'[idx].d # "NoDelete"]_vars

\* The loop has deleted k and not yet called back for it.
CallbackDue(k) == pc = "lock" /\ all[idx][1] = k

\* C17 as stated: an invoice is retried in every cycle while it is stored,
\* so under the tokio scheduling, if from some cycle on get_all and its query
\* succeed with balance >= amount and nobody else removes it, it does not
\* stay in the tree for ever, and the callback follows its delete.
C17_EventuallySettled ==
    \A k \in Keys :
        FromSomeCycleOnGood(k) =>
            /\ []<>(Utf8Encode(k) \notin DOMAIN tree)
            /\ [](CallbackDue(k) => <>(pc = "callback" /\ all[idx][1] = k))

====
